---- MODULE Spec2Model ----
(***************************************************************************)
(* A model of key-value-parser-rs: the line classifier                     *)
(* (src/src/parsed_line.rs), the pair parser KVParser (src/src/parser.rs)  *)
(* and the record grouper RecordParser (src/src/record.rs).                *)
(*                                                                         *)
(* Text is modelled as a sequence of one-character strings, so that        *)
(* trimming, delimiter search, splitting and joining are computed as the   *)
(* code computes them.  Option<T> is modelled as a sequence of length 0    *)
(* (None) or 1 (Some).                                                     *)
(***************************************************************************)
EXTENDS Naturals, Sequences, FiniteSets

VARIABLES
    policy,   \* the ParsePolicy the parsers were constructed with
    kv,       \* a stand-alone KVParser
    rp,       \* a RecordParser (its inner KVParser and its fields)
    record,   \* a Record, the fields pushed to it in order
    emitter,  \* a BlankLineRecordEmitter, fed the outputs of kv
    calls,    \* how many lines have been fed to the parser under test
    call,     \* the last operation called, with its argument and the policy's answer
    ret       \* what that operation returned

vars == <<policy, kv, rp, record, emitter, calls, call, ret>>

----------------------------------------------------------------------------
(* Bounds of the model *)

\* number of lines fed to the stand-alone KVParser
MaxLines == 4
\* number of lines fed to the RecordParser, end_input's empty line included
MaxRecLines == 4
\* longest line given to the line classifier, in characters
MaxLineLen == 5
\* number of fields pushed to the Record that is looked into
MaxFields == 3

----------------------------------------------------------------------------
(* Text *)

None == <<>>
Some(x) == <<x>>
IsSome(o) == Len(o) = 1
Unwrap(o) == o[1]

\* char::is_whitespace, on the characters of the model
Whitespace == {" "}

\* the lines fed to the parsers when the policy is arbitrary: an empty line,
\* a whitespace-only line, a line without the delimiter, and three pair
\* lines (two with the same key, two with the same value)
Lines ==
    { <<>>,
      <<" ">>,
      <<"x">>,
      <<"a", ":", " ", "1">>,
      <<"b", ":", " ", "2">>,
      <<"a", ":", " ", "2">> }

\* the characters of the lines enumerated by length: a letter, the two
\* characters of the delimiter
Chars == {"a", ":", " "}

\* every line of at most MaxLineLen characters
AllLines == UNION {[1..n -> Chars] : n \in 0..MaxLineLen}

RECURSIVE trim_start(_)
trim_start(s) ==
    IF s # <<>> /\ Head(s) \in Whitespace THEN trim_start(Tail(s)) ELSE s

RECURSIVE trim_end(_)
trim_end(s) ==
    IF s # <<>> /\ s[Len(s)] \in Whitespace
    THEN trim_end(SubSeq(s, 1, Len(s) - 1))
    ELSE s

trim(s) == trim_end(trim_start(s))

RECURSIVE join(_, _)
join(strs, sep) ==
    IF strs = <<>> THEN <<>>
    ELSE IF Len(strs) = 1 THEN strs[1]
    ELSE strs[1] \o sep \o join(Tail(strs), sep)

NewLine == <<"\n">>

----------------------------------------------------------------------------
(* parsed_line.rs: the line classifier *)

DELIM == <<":", " ">>

KeyValuePair(k, v) == [key |-> k, value |-> v]

\* the 0-based offsets at which pat occurs in s, as str::match_indices yields them
match_indices(s, pat) ==
    {i \in 0..(Len(s) - Len(pat)) : SubSeq(s, i + 1, i + Len(pat)) = pat}

\* the last match taken where the first is meant
Min_TakesLast(S) == CHOOSE x \in S : \A y \in S : x >= y

Min(S) == CHOOSE x \in S : \A y \in S : x <= y

\* str::split_at(mid): the text before and the text from offset mid
split_at(s, mid) == <<SubSeq(s, 1, mid), SubSeq(s, mid + 1, Len(s))>>

\* the classifier keeping the trimmed text of a line without a key
ParsedLineFrom_KeylessTrimmed(line) ==
    LET trimmed == trim(line) IN
    IF trimmed = <<>> THEN [tag |-> "EmptyLine", v |-> <<>>]
    ELSE IF match_indices(line, DELIM) # {}
    THEN LET delim == Min(match_indices(line, DELIM))
             kvs == split_at(line, delim)
             k == kvs[1]
             v == SubSeq(kvs[2], Len(DELIM) + 1, Len(kvs[2]))
         IN [tag |-> "Pair", v |-> KeyValuePair(k, v)]
    ELSE [tag |-> "KeylessLine", v |-> trimmed]

ParsedLineFrom(line) ==
    LET trimmed == trim(line) IN
    IF trimmed = <<>> THEN [tag |-> "EmptyLine", v |-> <<>>]
    ELSE IF match_indices(line, DELIM) # {}
    THEN LET delim == Min(match_indices(line, DELIM))
             kvs == split_at(line, delim)
             k == kvs[1]
             v == SubSeq(kvs[2], Len(DELIM) + 1, Len(kvs[2]))
         IN [tag |-> "Pair", v |-> KeyValuePair(k, v)]
    ELSE [tag |-> "KeylessLine", v |-> line]

----------------------------------------------------------------------------
(* parse_policy.rs: what a policy may answer *)

NotCalled == [kind |-> "NotCalled", v |-> None]

\* a fragment a policy may keep of the text it is given: nothing, the text
\* as it is, or the text with its first character stripped
Fragments(text) ==
    {None, Some(text)} \cup (IF text = <<>> THEN {} ELSE {Some(Tail(text))})

\* ParsePolicy::process_value of an arbitrary policy
AnyProcessValue(key, value) ==
    {[kind |-> "CompleteValue", v |-> f] : f \in Fragments(value) \ {None}}
    \cup {[kind |-> "StartOfMultiline", v |-> f] : f \in Fragments(value)}

\* ParsePolicy::process_continuation of an arbitrary policy
AnyProcessContinuation(key, line) ==
    {[kind |-> "ContinueMultiline", v |-> f] : f \in Fragments(line)}
    \cup {[kind |-> "FinishMultiline", v |-> f] : f \in Fragments(line)}

\* The marker-stripping policy (crate::policies::SPDXParsePolicy): a value
\* that opens with the opening token and holds the closing token is complete,
\* the text between the two kept; a value that opens with the opening token
\* and holds no closing token starts a multi-line value with the text after
\* the token; any other value is complete as it is.
SPDX_TEXT_OPEN_TAG == <<"<", "t", "e", "x", "t", ">">>
SPDX_TEXT_CLOSE_TAG == <<"<", "/", "t", "e", "x", "t", ">">>

starts_with(s, pat) == Len(s) >= Len(pat) /\ SubSeq(s, 1, Len(pat)) = pat

SPDXProcessValue(key, value) ==
    IF starts_with(value, SPDX_TEXT_OPEN_TAG)
    THEN LET rest == SubSeq(value, Len(SPDX_TEXT_OPEN_TAG) + 1, Len(value))
             close == match_indices(rest, SPDX_TEXT_CLOSE_TAG)
         IN IF close # {}
            THEN [kind |-> "CompleteValue",
                  v |-> Some(SubSeq(rest, 1, Min(close)))]
            ELSE [kind |-> "StartOfMultiline", v |-> Some(rest)]
    ELSE [kind |-> "CompleteValue", v |-> Some(value)]

\* a line holding the closing token finishes the value with the text before
\* the token; any other line continues it, kept whole
SPDXProcessContinuation(key, line) ==
    LET close == match_indices(line, SPDX_TEXT_CLOSE_TAG)
    IN IF close # {}
       THEN [kind |-> "FinishMultiline", v |-> Some(SubSeq(line, 1, Min(close)))]
       ELSE [kind |-> "ContinueMultiline", v |-> Some(line)]

\* the lines fed to a parser with the marker-stripping policy: a wrapped
\* value, an opened value, a plain pair, an empty line, a plain line, and a
\* line that closes
SPDXLines ==
    { <<"k", ":", " ">> \o SPDX_TEXT_OPEN_TAG \o <<"v">> \o SPDX_TEXT_CLOSE_TAG,
      <<"k", ":", " ">> \o SPDX_TEXT_OPEN_TAG \o <<"f">>,
      <<"k", ":", " ", "v">>,
      <<>>,
      <<"s">>,
      <<"t">> \o SPDX_TEXT_CLOSE_TAG }

\* The trivial policy (crate::policies::TrivialParsePolicy): every value is
\* complete, unchanged.  It never starts a multi-line value, so what it
\* answers to a continuation line is never asked for; it is taken to finish.
TrivialProcessValue(key, value) ==
    [kind |-> "CompleteValue", v |-> Some(value)]

TrivialProcessContinuation(key, line) ==
    [kind |-> "FinishMultiline", v |-> Some(line)]

\* the answers of the policy the parser was constructed with
process_value(pol, key, value) ==
    IF pol = "SPDX" THEN {SPDXProcessValue(key, value)}
    ELSE IF pol = "Trivial" THEN {TrivialProcessValue(key, value)}
    ELSE AnyProcessValue(key, value)

process_continuation(pol, key, line) ==
    IF pol = "SPDX" THEN {SPDXProcessContinuation(key, line)}
    ELSE IF pol = "Trivial" THEN {TrivialProcessContinuation(key, line)}
    ELSE AnyProcessContinuation(key, line)

\* the lines fed to a parser constructed with this policy
LinesFor(pol) ==
    IF pol = "SPDX" THEN SPDXLines
    ELSE IF pol = "Trivial" THEN AllLines
    ELSE Lines

----------------------------------------------------------------------------
(* parser.rs: KVParser *)

Out(tag, v) == [tag |-> tag, v |-> v]
LineNumber(n, value) == [line_number |-> n, value |-> value]

is_pending(output) == output.tag = "Pending"

KVParserNew ==
    [state |-> "Ready", line_num |-> 0, pending_key |-> <<>>, value_lines |-> <<>>]

\* maybe_push_value_line dropping a fragment that is empty
maybe_push_value_line_SkipsEmpty(value_lines, maybe_value) ==
    IF IsSome(maybe_value) /\ Unwrap(maybe_value) # <<>>
    THEN Append(value_lines, Unwrap(maybe_value))
    ELSE value_lines

maybe_push_value_line(value_lines, maybe_value) ==
    IF IsSome(maybe_value) THEN Append(value_lines, Unwrap(maybe_value))
    ELSE value_lines

\* take_pending with the fragments run together, no newline between them
take_pending_NoSeparator(p) ==
    [pair |-> KeyValuePair(p.pending_key, join(p.value_lines, <<>>)),
     p |-> [p EXCEPT !.value_lines = <<>>, !.pending_key = <<>>]]

\* take_pending leaving the pending key in place
take_pending_KeepsKey(p) ==
    [pair |-> KeyValuePair(p.pending_key, join(p.value_lines, NewLine)),
     p |-> [p EXCEPT !.value_lines = <<>>]]

\* take_pending: the pair taken, and the parser's fields after it
take_pending(p) ==
    [pair |-> KeyValuePair(p.pending_key, join(p.value_lines, NewLine)),
     p |-> [p EXCEPT !.value_lines = <<>>, !.pending_key = <<>>]]

lines_processed(p) == p.line_num

\* the answers the policy can give to the one call process_line makes of it
\* on this line (NotCalled when it makes none)
PolicyAnswers(pol, p, line) ==
    IF p.state = "Ready"
    THEN LET parsed == ParsedLineFrom(line) IN
         IF parsed.tag = "Pair"
         THEN process_value(pol, parsed.v.key, parsed.v.value)
         ELSE {NotCalled}
    ELSE process_continuation(pol, p.pending_key, line)

\* the arm of State::Ready seeding the buffer with the value as classified
\* instead of the fragment the policy returned
ReadyArm_SeedsParsedValue(p, line, ans) ==
    LET parsed == ParsedLineFrom(line) IN
    IF parsed.tag = "EmptyLine"
    THEN [p |-> p, output |-> Out("EmptyLine", <<>>)]
    ELSE IF parsed.tag = "KeylessLine"
    THEN [p |-> p, output |-> Out("KeylessLine", parsed.v)]
    ELSE IF ans.kind = "CompleteValue"
    THEN [p |-> p,
          output |-> Out("Output", KeyValuePair(parsed.v.key, Unwrap(ans.v)))]
    ELSE [p |-> [p EXCEPT
                   !.pending_key = parsed.v.key,
                   !.value_lines = <<parsed.v.value>>],
          output |-> Out("Pending", <<>>)]

\* process_line, the arm of State::Ready: the parser's fields and the output
ReadyArm(p, line, ans) ==
    LET parsed == ParsedLineFrom(line) IN
    IF parsed.tag = "EmptyLine"
    THEN [p |-> p, output |-> Out("EmptyLine", <<>>)]
    ELSE IF parsed.tag = "KeylessLine"
    THEN [p |-> p, output |-> Out("KeylessLine", parsed.v)]
    ELSE IF ans.kind = "CompleteValue"
    THEN [p |-> p,
          output |-> Out("Output", KeyValuePair(parsed.v.key, Unwrap(ans.v)))]
    ELSE [p |-> [p EXCEPT
                   !.pending_key = parsed.v.key,
                   !.value_lines = maybe_push_value_line(<<>>, ans.v)],
          output |-> Out("Pending", <<>>)]

\* the arm of State::AwaitingCloseText classifying the line first, so that a
\* blank line is answered EmptyLine
AwaitingCloseTextArm_Classifies(p, line, ans) ==
    IF ParsedLineFrom(line).tag = "EmptyLine"
    THEN [p |-> p, output |-> Out("EmptyLine", <<>>)]
    ELSE IF ans.kind = "ContinueMultiline"
    THEN [p |-> [p EXCEPT !.value_lines =
                   maybe_push_value_line(p.value_lines, ans.v)],
          output |-> Out("Pending", <<>>)]
    ELSE LET t == take_pending(
                    [p EXCEPT !.value_lines =
                       maybe_push_value_line(p.value_lines, ans.v)])
         IN [p |-> t.p, output |-> Out("Output", t.pair)]

\* the arm of State::AwaitingCloseText failing on a blank line, the value
\* being unterminated
AwaitingCloseTextArm_FailsOnBlank(p, line, ans) ==
    IF ParsedLineFrom(line).tag = "EmptyLine"
    THEN [p |-> p, output |-> Out("Error", <<>>)]
    ELSE IF ans.kind = "ContinueMultiline"
    THEN [p |-> [p EXCEPT !.value_lines =
                   maybe_push_value_line(p.value_lines, ans.v)],
          output |-> Out("Pending", <<>>)]
    ELSE LET t == take_pending(
                    [p EXCEPT !.value_lines =
                       maybe_push_value_line(p.value_lines, ans.v)])
         IN [p |-> t.p, output |-> Out("Output", t.pair)]

\* process_line, the arm of State::AwaitingCloseText
AwaitingCloseTextArm(p, line, ans) ==
    IF ans.kind = "ContinueMultiline"
    THEN [p |-> [p EXCEPT !.value_lines =
                   maybe_push_value_line(p.value_lines, ans.v)],
          output |-> Out("Pending", <<>>)]
    ELSE LET t == take_pending(
                    [p EXCEPT !.value_lines =
                       maybe_push_value_line(p.value_lines, ans.v)])
         IN [p |-> t.p, output |-> Out("Output", t.pair)]

\* the next state chosen with is_some where is_pending is meant
NextState_UsesIsSome(output) ==
    IF output.tag = "Output" THEN "AwaitingCloseText" ELSE "Ready"

\* the state never following the output
NextState_StaysReady(output) == "Ready"

\* process_line: the state the output determines
NextState(output) ==
    IF is_pending(output) THEN "AwaitingCloseText" ELSE "Ready"

\* process_line counting a line only when it is read in State::Ready
process_line_CountsReadyOnly(p, line, ans) ==
    LET p1 == IF p.state = "Ready"
              THEN [p EXCEPT !.line_num = p.line_num + 1]
              ELSE p
        r == IF p1.state = "Ready"
             THEN ReadyArm(p1, line, ans)
             ELSE AwaitingCloseTextArm(p1, line, ans)
    IN [p |-> [r.p EXCEPT !.state = NextState(r.output)],
        ret |-> LineNumber(p1.line_num, r.output)]

\* process_line: the parser after the call and the value returned
process_line(p, line, ans) ==
    LET p1 == [p EXCEPT !.line_num = p.line_num + 1]
        r == IF p1.state = "Ready"
             THEN ReadyArm(p1, line, ans)
             ELSE AwaitingCloseTextArm(p1, line, ans)
    IN [p |-> [r.p EXCEPT !.state = NextState(r.output)],
        ret |-> LineNumber(p1.line_num, r.output)]

\* take_pending_pair returning nothing for a value without fragments
take_pending_pair_SkipsEmpty(p) ==
    IF p.state = "Ready" THEN [p |-> p, ret |-> None]
    ELSE LET t == take_pending(p) IN
         [p |-> [t.p EXCEPT !.state = "Ready"],
          ret |-> IF p.value_lines = <<>> THEN None ELSE Some(t.pair)]

\* take_pending_pair counting a line
take_pending_pair_CountsLine(p) ==
    IF p.state = "Ready"
    THEN [p |-> [p EXCEPT !.line_num = p.line_num + 1], ret |-> None]
    ELSE LET t == take_pending(p) IN
         [p |-> [t.p EXCEPT !.state = "Ready", !.line_num = p.line_num + 1],
          ret |-> Some(t.pair)]

\* take_pending_pair leaving the state as it is
take_pending_pair_KeepsState(p) ==
    IF p.state = "Ready"
    THEN [p |-> p, ret |-> None]
    ELSE LET t == take_pending(p)
         IN [p |-> t.p, ret |-> Some(t.pair)]

\* take_pending_pair: the parser after the call and the Option returned
take_pending_pair(p) ==
    IF p.state = "Ready"
    THEN [p |-> p, ret |-> None]
    ELSE LET t == take_pending([p EXCEPT !.state = "Ready"])
         IN [p |-> t.p, ret |-> Some(t.pair)]

----------------------------------------------------------------------------
(* record.rs: RecordParser *)

RecordParserNew == [inner |-> KVParserNew, fields |-> <<>>]

\* the match answering an EmptyLine with a record even when no field is held
RecordMatch_EmitsEmptyRecord(fields, output) ==
    IF output.tag = "EmptyLine"
    THEN [fields |-> <<>>, output |-> Out("Record", fields)]
    ELSE IF output.tag = "Pending"
    THEN [fields |-> fields, output |-> Out("ValuePending", <<>>)]
    ELSE IF output.tag = "KeylessLine"
    THEN [fields |-> fields, output |-> Out("KeylessLine", output.v)]
    ELSE [fields |-> Append(fields, output.v),
          output |-> Out("RecordPending", <<>>)]

\* the match letting a KeylessLine end the record in progress
RecordMatch_KeylessCloses(fields, output) ==
    IF output.tag = "EmptyLine"
    THEN IF fields = <<>>
         THEN [fields |-> fields, output |-> Out("EmptyLine", <<>>)]
         ELSE [fields |-> <<>>, output |-> Out("Record", fields)]
    ELSE IF output.tag = "Pending"
    THEN [fields |-> fields, output |-> Out("ValuePending", <<>>)]
    ELSE IF output.tag = "KeylessLine"
    THEN [fields |-> <<>>, output |-> Out("KeylessLine", output.v)]
    ELSE [fields |-> Append(fields, output.v),
          output |-> Out("RecordPending", <<>>)]

\* the match putting a completed pair in front of the fields
RecordMatch_Prepends(fields, output) ==
    IF output.tag = "EmptyLine"
    THEN IF fields = <<>>
         THEN [fields |-> fields, output |-> Out("EmptyLine", <<>>)]
         ELSE [fields |-> <<>>, output |-> Out("Record", fields)]
    ELSE IF output.tag = "Pending"
    THEN [fields |-> fields, output |-> Out("ValuePending", <<>>)]
    ELSE IF output.tag = "KeylessLine"
    THEN [fields |-> fields, output |-> Out("KeylessLine", output.v)]
    ELSE [fields |-> <<output.v>> \o fields,
          output |-> Out("RecordPending", <<>>)]

\* RecordParser::process_line, the match on the inner parser's output: the
\* fields after it and the RecordOutput.  (record.rs names the inner output's
\* variants ValuePending and Pair; parser.rs names them Pending and Output.)
RecordMatch(fields, output) ==
    IF output.tag = "EmptyLine"
    THEN IF fields = <<>>
         THEN [fields |-> fields, output |-> Out("EmptyLine", <<>>)]
         ELSE [fields |-> <<>>, output |-> Out("Record", fields)]
    ELSE IF output.tag = "Pending"
    THEN [fields |-> fields, output |-> Out("ValuePending", <<>>)]
    ELSE IF output.tag = "KeylessLine"
    THEN [fields |-> fields, output |-> Out("KeylessLine", output.v)]
    ELSE [fields |-> Append(fields, output.v),
          output |-> Out("RecordPending", <<>>)]

\* RecordParser::process_line: the record parser after the call and the
\* value returned
RecordParser_process_line(r, line, ans) ==
    LET i == process_line(r.inner, line, ans)
        m == RecordMatch(r.fields, i.ret.value)
    IN [r |-> [inner |-> i.p, fields |-> m.fields],
        ret |-> LineNumber(i.ret.line_number, m.output)]

\* RecordParser::end_input taking the fields and leaving the inner parser
\* alone
RecordParser_end_input_TakesFields(r, ans) ==
    IF r.fields = <<>>
    THEN [r |-> r, ret |-> Out("EmptyLine", <<>>)]
    ELSE [r |-> [r EXCEPT !.fields = <<>>], ret |-> Out("Record", r.fields)]

\* RecordParser::end_input: process_line(""), its line number dropped
RecordParser_end_input(r, ans) ==
    LET x == RecordParser_process_line(r, <<>>, ans)
    IN [r |-> x.r, ret |-> x.ret.value]

----------------------------------------------------------------------------
(* emitters.rs: BlankLineRecordEmitter *)

\* #[derive(Default)]: no fields
BlankLineRecordEmitterDefault == [fields |-> <<>>]

\* try_take emitting a record even when there are no fields
try_take_EmitsEmpty(e) ==
    [e |-> [e EXCEPT !.fields = <<>>], ret |-> Out("Output", e.fields)]

\* try_take: the emitter after the call and the output returned
try_take(e) ==
    IF e.fields = <<>>
    THEN [e |-> e, ret |-> Out("EmptyLine", <<>>)]
    ELSE [e |-> [e EXCEPT !.fields = <<>>], ret |-> Out("Output", e.fields)]

\* accumulate_output: the emitter after the call and the output returned
accumulate_output(e, maybe_field) ==
    IF maybe_field.tag = "EmptyLine"
    THEN try_take(e)
    ELSE IF maybe_field.tag = "Pending"
    THEN [e |-> e, ret |-> Out("Pending", <<>>)]
    ELSE IF maybe_field.tag = "KeylessLine"
    THEN [e |-> e, ret |-> Out("KeylessLine", maybe_field.v)]
    ELSE [e |-> [e EXCEPT !.fields = Append(e.fields, maybe_field.v)],
          ret |-> Out("Pending", <<>>)]

\* BlankLineRecordEmitter::end_input
BlankLineRecordEmitter_end_input(e) == try_take(e)

----------------------------------------------------------------------------
(* record.rs: Record and its lookups *)

RecordDefault == <<>>

push_field(fields, pair) == Append(fields, pair)

Ok(x) == [ok |-> TRUE, v |-> x]
Err(e) == [ok |-> FALSE, v |-> e]

WantedAtMostOneFoundMore(key, n) ==
    [err |-> "WantedAtMostOneFoundMore", key |-> key, count |-> n]
WantedOneFoundMore(key, n) ==
    [err |-> "WantedOneFoundMore", key |-> key, count |-> n]
MissingField(key) == [err |-> "MissingField", key |-> key]

\* Iterator::filter with the test pair.key == key: the fields that pass it
filter(fields, key) == SelectSeq(fields, LAMBDA pair : pair.key = key)

count_fields_with_key(fields, key) ==
    Len(filter(fields, key))

\* the iterator iter_values_for_key returns, as the sequence it will yield
iter_values_for_key(fields, key) ==
    LET matching == filter(fields, key)
    IN [i \in 1..Len(matching) |-> matching[i].value]

values_for_key(fields, key) == iter_values_for_key(fields, key)

\* Iterator::next: the item yielded, if any, and the iterator after it
next(it) ==
    IF it = <<>> THEN [item |-> None, it |-> it]
    ELSE [item |-> Some(Head(it)), it |-> Tail(it)]

\* value_for_key reporting only the fields left after the two it has read
value_for_key_CountsRest(fields, key) ==
    LET first == next(iter_values_for_key(fields, key))
        second == next(first.it)
    IN IF second.item = None
       THEN Ok(first.item)
       ELSE Err(WantedAtMostOneFoundMore(key, Len(second.it)))

value_for_key(fields, key) ==
    LET first == next(iter_values_for_key(fields, key))
        second == next(first.it)
    IN IF second.item = None
       THEN Ok(first.item)
       ELSE Err(WantedAtMostOneFoundMore(key, 2 + Len(second.it)))

\* value_for_required_key taking the first field whatever follows it
value_for_required_key_TakesFirst(fields, key) ==
    LET first == next(iter_values_for_key(fields, key))
    IN IF IsSome(first.item)
       THEN Ok(Unwrap(first.item))
       ELSE Err(MissingField(key))

value_for_required_key(fields, key) ==
    LET first == next(iter_values_for_key(fields, key))
    IN IF IsSome(first.item)
       THEN LET second == next(first.it)
            IN IF second.item = None
               THEN Ok(Unwrap(first.item))
               ELSE Err(WantedOneFoundMore(key, 2 + Len(second.it)))
       ELSE Err(MissingField(key))

\* the fields pushed to the Record and the keys looked up in it
FieldPairs ==
    {KeyValuePair(k, v) : k \in {<<"a">>, <<"b">>}, v \in {<<"1">>, <<"2">>}}
LookupKeys == {<<"a">>, <<"b">>}

----------------------------------------------------------------------------
(* The operations, called in any order with any line *)

NoCall == [op |-> "new", line |-> <<>>, ans |-> NotCalled]

InitObjects ==
    /\ kv = KVParserNew
    /\ rp = RecordParserNew
    /\ record = RecordDefault
    /\ emitter = BlankLineRecordEmitterDefault
    /\ calls = 0
    /\ call = NoCall
    /\ ret = None

KVProcessLine ==
    /\ calls < MaxLines
    /\ \E line \in LinesFor(policy) :
         \E ans \in PolicyAnswers(policy, kv, line) :
           LET r == process_line(kv, line, ans) IN
           /\ kv' = r.p
           /\ call' = [op |-> "process_line", line |-> line, ans |-> ans]
           /\ ret' = r.ret
    /\ calls' = calls + 1
    /\ UNCHANGED <<policy, emitter, rp, record>>

KVTakePendingPair ==
    /\ LET r == take_pending_pair(kv) IN
       /\ kv' = r.p
       /\ call' = [op |-> "take_pending_pair", line |-> <<>>, ans |-> NotCalled]
       /\ ret' = r.ret
    /\ UNCHANGED <<policy, emitter, rp, record, calls>>

RPProcessLine ==
    /\ calls < MaxRecLines
    /\ \E line \in LinesFor(policy) :
         \E ans \in PolicyAnswers(policy, rp.inner, line) :
           LET r == RecordParser_process_line(rp, line, ans) IN
           /\ rp' = r.r
           /\ call' = [op |-> "process_line", line |-> line, ans |-> ans]
           /\ ret' = r.ret
    /\ calls' = calls + 1
    /\ UNCHANGED <<policy, emitter, kv, record>>

RPEndInput ==
    /\ calls < MaxRecLines
    /\ \E ans \in PolicyAnswers(policy, rp.inner, <<>>) :
         LET r == RecordParser_end_input(rp, ans) IN
         /\ rp' = r.r
         /\ call' = [op |-> "end_input", line |-> <<>>, ans |-> ans]
         /\ ret' = r.ret
    /\ calls' = calls + 1
    /\ UNCHANGED <<policy, emitter, kv, record>>

(* The stand-alone KVParser under an arbitrary policy *)
InitKV == policy = "Any" /\ InitObjects
NextKV == KVProcessLine \/ KVTakePendingPair
SpecKV == InitKV /\ [][NextKV]_vars

\* the policy takes &self: the same call gets the same answer
SameArguments(p, q) ==
    /\ p.state = q.state
    /\ p.state = "AwaitingCloseText" => p.pending_key = q.pending_key

\* one line fed to the RecordParser, and to the KVParser whose output is
\* passed to the emitter
SideProcessLine ==
    /\ calls < MaxRecLines
    /\ \E line \in LinesFor(policy) :
         \E ans \in PolicyAnswers(policy, rp.inner, line) :
           \E ansK \in PolicyAnswers(policy, kv, line) :
             /\ SameArguments(rp.inner, kv) => ansK = ans
             /\ LET r == RecordParser_process_line(rp, line, ans)
                    k == process_line(kv, line, ansK)
                    a == accumulate_output(emitter, k.ret.value)
                IN /\ rp' = r.r
                   /\ kv' = k.p
                   /\ emitter' = a.e
                   /\ call' = [op |-> "process_line", line |-> line, ans |-> ans]
                   /\ ret' = [record_parser |-> r.ret,
                              emitter |-> LineNumber(k.ret.line_number, a.ret)]
    /\ calls' = calls + 1
    /\ UNCHANGED <<policy, record>>

\* the input ended on both: RecordParser::end_input and the emitter's
SideEndInput ==
    /\ calls < MaxRecLines
    /\ \E ans \in PolicyAnswers(policy, rp.inner, <<>>) :
         LET r == RecordParser_end_input(rp, ans)
             a == BlankLineRecordEmitter_end_input(emitter)
         IN /\ rp' = r.r
            /\ emitter' = a.e
            /\ call' = [op |-> "end_input", line |-> <<>>, ans |-> ans]
            /\ ret' = [record_parser |-> r.ret, emitter |-> a.ret]
    /\ calls' = calls + 1
    /\ UNCHANGED <<policy, kv, record>>

\* lines_processed takes &self
KVLinesProcessed ==
    /\ call' = [op |-> "lines_processed", line |-> <<>>, ans |-> NotCalled]
    /\ ret' = lines_processed(kv)
    /\ UNCHANGED <<policy, emitter, kv, rp, record, calls>>

(* The RecordParser beside a KVParser with a BlankLineRecordEmitter, fed
   the same lines *)
InitSide == policy = "Any" /\ InitObjects
NextSide == SideProcessLine
SpecSide == InitSide /\ [][NextSide]_vars

\* end_input has not been called: no line follows the end of the input
InputOpen == call.op # "end_input"

(* The same two, with the input ended at any point *)
InitEnd == policy = "Any" /\ InitObjects
NextEnd == (InputOpen /\ SideProcessLine) \/ (InputOpen /\ SideEndInput)
SpecEnd == InitEnd /\ [][NextEnd]_vars

(* The stand-alone KVParser with its line counter read at any point *)
InitFrame == policy = "Any" /\ InitObjects
NextFrame == KVProcessLine \/ KVTakePendingPair \/ KVLinesProcessed
SpecFrame == InitFrame /\ [][NextFrame]_vars

(* The RecordParser under an arbitrary policy *)
InitRP == policy = "Any" /\ InitObjects
NextRP == RPProcessLine \/ RPEndInput
SpecRP == InitRP /\ [][NextRP]_vars

(* The stand-alone KVParser under the marker-stripping policy *)
InitSPDX == policy = "SPDX" /\ InitObjects
NextSPDX == KVProcessLine \/ KVTakePendingPair
SpecSPDX == InitSPDX /\ [][NextSPDX]_vars

(* The line classifier, given any line *)
Classify ==
    /\ \E line \in AllLines :
         /\ call' = [op |-> "ParsedLine::from", line |-> line, ans |-> NotCalled]
         /\ ret' = ParsedLineFrom(line)
    /\ UNCHANGED <<policy, emitter, kv, rp, record, calls>>

InitClassify == policy = "Any" /\ InitObjects
NextClassify == Classify
SpecClassify == InitClassify /\ [][NextClassify]_vars

(* A Record, fields pushed to it and looked up in it in any order *)
PushField ==
    /\ Len(record) < MaxFields
    /\ \E pair \in FieldPairs :
         /\ record' = push_field(record, pair)
         /\ call' = [op |-> "push_field", pair |-> pair]
         /\ ret' = None
    /\ UNCHANGED <<policy, emitter, kv, rp, calls>>

CountFieldsWithKey ==
    /\ \E key \in LookupKeys :
         /\ call' = [op |-> "count_fields_with_key", key |-> key]
         /\ ret' = count_fields_with_key(record, key)
    /\ UNCHANGED <<policy, emitter, kv, rp, record, calls>>

ValueForKey ==
    /\ \E key \in LookupKeys :
         /\ call' = [op |-> "value_for_key", key |-> key]
         /\ ret' = value_for_key(record, key)
    /\ UNCHANGED <<policy, emitter, kv, rp, record, calls>>

ValueForRequiredKey ==
    /\ \E key \in LookupKeys :
         /\ call' = [op |-> "value_for_required_key", key |-> key]
         /\ ret' = value_for_required_key(record, key)
    /\ UNCHANGED <<policy, emitter, kv, rp, record, calls>>

InitRecord == policy = "Any" /\ InitObjects
NextRecord ==
    PushField \/ CountFieldsWithKey \/ ValueForKey \/ ValueForRequiredKey
SpecRecord == InitRecord /\ [][NextRecord]_vars

(* The stand-alone KVParser under the trivial policy *)
InitTrivial == policy = "Trivial" /\ InitObjects
NextTrivial == KVProcessLine \/ KVTakePendingPair
SpecTrivial == InitTrivial /\ [][NextTrivial]_vars

----------------------------------------------------------------------------
(* What the properties below say of a line, stated without the classifier *)

IsBlank(line) == \A i \in 1..Len(line) : line[i] \in Whitespace

HasDelim(line) ==
    \E i \in 1..(Len(line) - 1) : line[i] = ":" /\ line[i + 1] = " "

IsPairLine(line) == ~IsBlank(line) /\ HasDelim(line)

\* the fragments an optional fragment contributes: itself, or nothing
Present(maybe_value) ==
    IF IsSome(maybe_value) THEN <<Unwrap(maybe_value)>> ELSE <<>>

\* the first n fragments, a newline between each two, built from the left
RECURSIVE JoinedUpTo(_, _)
JoinedUpTo(frags, n) ==
    IF n = 0 THEN <<>>
    ELSE IF n = 1 THEN frags[1]
    ELSE JoinedUpTo(frags, n - 1) \o <<"\n">> \o frags[n]

Joined(frags) == JoinedUpTo(frags, Len(frags))

NewLinesIn(text) == Len(SelectSeq(text, LAMBDA c : c = "\n"))

----------------------------------------------------------------------------
(* Properties of the stand-alone KVParser *)

\* C1: a line processed while the parser is Ready: a blank line yields
\* EmptyLine and a line without ": " yields KeylessLine(line), both leaving
\* the parser Ready; a pair line the policy answers CompleteValue(v) yields
\* Output({key, v}), the parser staying Ready; a pair line the policy answers
\* StartOfMultiline(maybe v) yields Pending, makes the key the pending key and
\* the fragment buffer [v] or empty, and moves to AwaitingCloseText.
C1_ReadyLine ==
    [][ (call'.op = "process_line" /\ kv.state = "Ready") =>
        LET line == call'.line
            ans == call'.ans
            key == ParsedLineFrom(line).v.key
        IN /\ IsBlank(line) =>
                /\ ret'.value = Out("EmptyLine", <<>>)
                /\ kv'.state = "Ready"
           /\ (~IsBlank(line) /\ ~HasDelim(line)) =>
                /\ ret'.value = Out("KeylessLine", line)
                /\ kv'.state = "Ready"
           /\ (IsPairLine(line) /\ ans.kind = "CompleteValue") =>
                /\ ret'.value = Out("Output", KeyValuePair(key, Unwrap(ans.v)))
                /\ kv'.state = "Ready"
           /\ (IsPairLine(line) /\ ans.kind = "StartOfMultiline") =>
                /\ ret'.value = Out("Pending", <<>>)
                /\ kv'.pending_key = key
                /\ kv'.value_lines = Present(ans.v)
                /\ kv'.state = "AwaitingCloseText"
           /\ IsPairLine(line) =>
                ans.kind \in {"CompleteValue", "StartOfMultiline"}
      ]_vars

\* the first line opened a multi-line value with a fragment that is not the
\* value as classified
C1_Witness ==
    /\ calls = 1
    /\ call.op = "process_line"
    /\ call.line = <<"a", ":", " ", "1">>
    /\ call.ans = [kind |-> "StartOfMultiline", v |-> Some(<<>>)]
    /\ ret.value.tag = "Pending"
    /\ kv.state = "AwaitingCloseText"
    /\ kv.pending_key = <<"a">>
    /\ kv.value_lines = <<<<>>>>

\* C2: a line processed in AwaitingCloseText is not classified: whatever the
\* line, the output is Pending exactly when the policy answered
\* ContinueMultiline and Output exactly when it answered FinishMultiline,
\* never EmptyLine or KeylessLine; the pending key stays, and is the key of
\* the pair emitted.
C2_ContinuationLine ==
    [][ (call'.op = "process_line" /\ kv.state = "AwaitingCloseText") =>
        /\ call'.ans.kind \in {"ContinueMultiline", "FinishMultiline"}
        /\ ret'.value.tag \in {"Pending", "Output"}
        /\ (ret'.value.tag = "Pending") <=> (call'.ans.kind = "ContinueMultiline")
        /\ (ret'.value.tag = "Pending") =>
             /\ kv'.pending_key = kv.pending_key
             /\ kv'.state = "AwaitingCloseText"
        /\ (ret'.value.tag = "Output") => ret'.value.v.key = kv.pending_key
      ]_vars

\* a pair line with another key arrived while the value of "a" was open
C2_Witness ==
    /\ call.op = "process_line"
    /\ calls >= 2
    /\ call.line = <<"b", ":", " ", "2">>
    /\ call.ans.kind = "ContinueMultiline"
    /\ ret.value.tag = "Pending"
    /\ kv.state = "AwaitingCloseText"
    /\ kv.pending_key = <<"a">>

\* C3: the fragment buffer holds, in arrival order, the present fragments of
\* the opening line and of every ContinueMultiline line; on
\* FinishMultiline(maybe v) the output is Output({pending key, the buffer
\* with v appended when present, joined with one newline between
\* fragments}), and the pending key and buffer are cleared, the parser Ready.
C3_FinishJoins ==
    [][ (call'.op = "process_line") =>
        LET ans == call'.ans IN
        /\ ans.kind = "StartOfMultiline" =>
             /\ kv'.pending_key = ParsedLineFrom(call'.line).v.key
             /\ kv'.value_lines = Present(ans.v)
        /\ ans.kind = "ContinueMultiline" =>
             /\ kv'.pending_key = kv.pending_key
             /\ kv'.value_lines = kv.value_lines \o Present(ans.v)
        /\ ans.kind = "FinishMultiline" =>
             /\ ret'.value =
                  Out("Output",
                      KeyValuePair(kv.pending_key,
                                   Joined(kv.value_lines \o Present(ans.v))))
             /\ kv'.pending_key = <<>>
             /\ kv'.value_lines = <<>>
             /\ kv'.state = "Ready"
      ]_vars

\* three lines, one absent and two present fragments and an empty one:
\* "a: 1" opens with "1", "" continues with "", "x" finishes with "x"
C3_Witness ==
    /\ calls = 3
    /\ call.op = "process_line"
    /\ call.ans = [kind |-> "FinishMultiline", v |-> Some(<<"x">>)]
    /\ ret.value = Out("Output",
                       KeyValuePair(<<"a">>, <<"1", "\n", "\n", "x">>))
    /\ kv.state = "Ready"

\* C4: the line counter equals the number of process_line calls made, and
\* the line number a process_line call returns is that number;
\* take_pending_pair calls in between do not change it.
C4_LineCounter ==
    /\ lines_processed(kv) = calls
    /\ call.op = "process_line" => ret.line_number = calls

\* the third line, read in AwaitingCloseText, is numbered 3
C4_Witness ==
    /\ calls = 3
    /\ call.op = "process_line"
    /\ call.ans.kind = "ContinueMultiline"
    /\ ret = LineNumber(3, Out("Pending", <<>>))
    /\ lines_processed(kv) = 3

----------------------------------------------------------------------------
(* Properties of the RecordParser *)

\* the output the inner parser gives on the line of the step taken
StepInnerOutput == process_line(rp.inner, call'.line, call'.ans).ret.value

\* the RecordOutput the step taken returns
StepRecordOutput == IF call'.op = "end_input" THEN ret' ELSE ret'.value

\* C5: on an EmptyLine output of the inner parser the record parser emits
\* Record(fields) and empties the fields when it holds at least one field,
\* and answers EmptyLine when it holds none; every record emitted holds at
\* least one pair, is emitted on an EmptyLine of the inner parser, and
\* leaves the fields empty.
C5_BlankClosesRecord ==
    [][ LET inner == StepInnerOutput
            out == StepRecordOutput
        IN /\ inner.tag = "EmptyLine" =>
                /\ rp.fields # <<>> => out = Out("Record", rp.fields)
                /\ rp.fields = <<>> => out = Out("EmptyLine", <<>>)
                /\ rp'.fields = <<>>
           /\ out.tag = "Record" =>
                /\ inner.tag = "EmptyLine"
                /\ out.v # <<>>
                /\ rp'.fields = <<>>
      ]_vars

\* "a: 1", "b: 2", "" gave RecordPending, RecordPending, Record([a 1, b 2])
C5_Witness ==
    /\ calls = 3
    /\ call.op = "process_line"
    /\ call.line = <<>>
    /\ ret = LineNumber(3, Out("Record",
                               <<KeyValuePair(<<"a">>, <<"1">>),
                                 KeyValuePair(<<"b">>, <<"2">>)>>))
    /\ rp.fields = <<>>

\* C6: a KeylessLine output of the inner parser (a line that is not blank
\* and has no ": ", read while the inner parser is Ready) is returned as
\* KeylessLine with the same text and leaves the fields as they are.
C6_KeylessPassesThrough ==
    [][ LET inner == StepInnerOutput
            out == StepRecordOutput
            line == call'.line
        IN /\ inner.tag = "KeylessLine" =>
                /\ out = Out("KeylessLine", inner.v)
                /\ rp'.fields = rp.fields
           /\ (rp.inner.state = "Ready" /\ ~IsBlank(line) /\ ~HasDelim(line)) =>
                /\ out = Out("KeylessLine", line)
                /\ rp'.fields = rp.fields
      ]_vars

\* a keyless line read with two fields of a record in progress
C6_Witness ==
    /\ calls = 3
    /\ call.op = "process_line"
    /\ call.line = <<"x">>
    /\ ret.value = Out("KeylessLine", <<"x">>)
    /\ rp.fields = <<KeyValuePair(<<"a">>, <<"1">>),
                     KeyValuePair(<<"b">>, <<"2">>)>>

\* C7: a pair completed by the inner parser is appended to the fields and
\* the record parser answers RecordPending; a Pending or KeylessLine output
\* leaves the fields as they are; a record emitted is the fields held, which
\* are then emptied.  Hence a record is the pairs completed since the record
\* before it, in order of completion, each once.
C7_RecordIsCompletedPairs ==
    [][ LET inner == StepInnerOutput
            out == StepRecordOutput
        IN /\ inner.tag = "Output" =>
                /\ rp'.fields = Append(rp.fields, inner.v)
                /\ out = Out("RecordPending", <<>>)
           /\ inner.tag \in {"Pending", "KeylessLine"} =>
                rp'.fields = rp.fields
           /\ out.tag = "Record" =>
                /\ out.v = rp.fields
                /\ rp'.fields = <<>>
           /\ out.tag # "Record" =>
                \/ rp'.fields = rp.fields
                \/ rp'.fields = Append(rp.fields, inner.v)
      ]_vars

\* a record of two pairs with the same key, in the order they completed, the
\* second one completed by a multi-line value
C7_Witness ==
    /\ calls = 4
    /\ call.op = "process_line"
    /\ ret.value = Out("Record",
                       <<KeyValuePair(<<"a">>, <<"2">>),
                         KeyValuePair(<<"a">>, <<"1", "\n", "x">>)>>)
    /\ rp.fields = <<>>

\* C8: end_input returns the record in progress: with at least one field
\* held it returns Record(fields) and empties the fields; with none it
\* returns no record.
C8_EndInputReturnsRecord ==
    [][ call'.op = "end_input" =>
        /\ rp.fields # <<>> =>
             /\ ret' = Out("Record", rp.fields)
             /\ rp'.fields = <<>>
        /\ rp.fields = <<>> => ret'.tag # "Record"
      ]_vars

----------------------------------------------------------------------------
(* Properties of take_pending_pair *)

\* C9: take_pending_pair in AwaitingCloseText returns the pair of the pending
\* key and the fragments held joined with newlines, empties key and buffer
\* and makes the parser Ready, the line counter untouched; in Ready it
\* returns None and changes nothing.  After it the parser is Ready and
\* another take_pending_pair returns None.
C9_TakePendingPair ==
    [][ call'.op = "take_pending_pair" =>
        /\ kv.state = "AwaitingCloseText" =>
             /\ ret' = Some(KeyValuePair(kv.pending_key, Joined(kv.value_lines)))
             /\ kv' = [KVParserNew EXCEPT !.line_num = kv.line_num]
        /\ kv.state = "Ready" =>
             /\ ret' = None
             /\ kv' = kv
        /\ kv'.state = "Ready"
        /\ take_pending_pair(kv').ret = None
      ]_vars

\* an open value of two fragments was taken
C9_Witness ==
    /\ calls = 2
    /\ call.op = "take_pending_pair"
    /\ ret = Some(KeyValuePair(<<"a">>, <<"1", "\n", "x">>))
    /\ kv = [KVParserNew EXCEPT !.line_num = 2]

----------------------------------------------------------------------------
(* Properties of the parser with the marker-stripping policy *)

ends_with(s, pat) ==
    Len(s) >= Len(pat) /\ SubSeq(s, Len(s) - Len(pat) + 1, Len(s)) = pat

Contains(s, pat) ==
    \E i \in 1..(Len(s) - Len(pat) + 1) : SubSeq(s, i, i + Len(pat) - 1) = pat

StripOpen(s) == SubSeq(s, Len(SPDX_TEXT_OPEN_TAG) + 1, Len(s))
StripClose(s) == SubSeq(s, 1, Len(s) - Len(SPDX_TEXT_CLOSE_TAG))

\* C10: with the marker-stripping policy, read in Ready, a pair line whose
\* value is wrapped in both tokens yields Output on that line, both tokens
\* stripped, and one whose value has the opening token and no closing token
\* yields Pending; read in AwaitingCloseText, a line without the closing
\* token, an empty line included, yields Pending and adds the line as a
\* fragment, and a line ending in the closing token yields Output of the
\* pending key and the stripped fragments joined with newlines, after which
\* the parser is Ready and a blank line yields EmptyLine.
C10_MarkerStripping ==
    [][ call'.op = "process_line" =>
        LET line == call'.line
            parsed == ParsedLineFrom(line)
            out == ret'.value
        IN /\ (kv.state = "Ready" /\ IsPairLine(line)
                 /\ starts_with(parsed.v.value, SPDX_TEXT_OPEN_TAG)
                 /\ ends_with(StripOpen(parsed.v.value), SPDX_TEXT_CLOSE_TAG)) =>
                /\ out = Out("Output",
                             KeyValuePair(parsed.v.key,
                                          StripClose(StripOpen(parsed.v.value))))
                /\ kv'.state = "Ready"
           /\ (kv.state = "Ready" /\ IsPairLine(line)
                 /\ starts_with(parsed.v.value, SPDX_TEXT_OPEN_TAG)
                 /\ ~Contains(parsed.v.value, SPDX_TEXT_CLOSE_TAG)) =>
                /\ out = Out("Pending", <<>>)
                /\ kv'.state = "AwaitingCloseText"
                /\ kv'.pending_key = parsed.v.key
                /\ kv'.value_lines = <<StripOpen(parsed.v.value)>>
           /\ (kv.state = "AwaitingCloseText"
                 /\ ~Contains(line, SPDX_TEXT_CLOSE_TAG)) =>
                /\ out = Out("Pending", <<>>)
                /\ kv'.state = "AwaitingCloseText"
                /\ kv'.value_lines = Append(kv.value_lines, line)
           /\ (kv.state = "AwaitingCloseText"
                 /\ ends_with(line, SPDX_TEXT_CLOSE_TAG)) =>
                /\ out = Out("Output",
                             KeyValuePair(kv.pending_key,
                                          Joined(Append(kv.value_lines,
                                                        StripClose(line)))))
                /\ kv'.state = "Ready"
           /\ (kv.state = "Ready" /\ IsBlank(line)) =>
                /\ out = Out("EmptyLine", <<>>)
                /\ kv'.state = "Ready"
      ]_vars

\* "k: <text>f", "s", "t</text>" gave Pending, Pending and, on line 3,
\* Output({k, "f\ns\nt"})
C10_Witness ==
    /\ calls = 3
    /\ call.op = "process_line"
    /\ call.line = <<"t">> \o SPDX_TEXT_CLOSE_TAG
    /\ ret = LineNumber(3, Out("Output",
                               KeyValuePair(<<"k">>,
                                            <<"f", "\n", "s", "\n", "t">>)))
    /\ kv.state = "Ready"

----------------------------------------------------------------------------
(* Properties of the parser with the trivial policy *)

\* C11: with the trivial policy the parser is Ready after every call and no
\* call returns Pending: a pair line yields, on that line, Output of the key
\* and the value exactly as classified, and take_pending_pair returns None.
C11_TrivialNeverPending ==
    [][ /\ kv'.state = "Ready"
        /\ call'.op = "process_line" =>
             /\ ret'.value.tag # "Pending"
             /\ ret'.line_number = calls'
             /\ IsPairLine(call'.line) =>
                  ret'.value = Out("Output", ParsedLineFrom(call'.line).v)
        /\ call'.op = "take_pending_pair" => ret' = None
      ]_vars

\* the pair line "a: : " gave, as third line, Output({a, ": "})
C11_Witness ==
    /\ calls = 3
    /\ call.op = "process_line"
    /\ call.line = <<"a", ":", " ", ":", " ">>
    /\ ret = LineNumber(3, Out("Output", KeyValuePair(<<"a">>, <<":", " ">>)))
    /\ kv.state = "Ready"

----------------------------------------------------------------------------
(* Properties of the line classifier *)

\* C12: the classifier answers EmptyLine exactly for the lines that are
\* empty or hold whitespace only, and for a line that is not blank and holds
\* no ": " it answers KeylessLine with the line itself, untrimmed.
C12_BlankAndKeyless ==
    call.op = "ParsedLine::from" =>
        /\ (ret.tag = "EmptyLine") <=> IsBlank(call.line)
        /\ (~IsBlank(call.line) /\ ~HasDelim(call.line)) =>
             ret = [tag |-> "KeylessLine", v |-> call.line]
        /\ ret.tag = "KeylessLine" => ~HasDelim(call.line)

\* a keyless line with whitespace on both sides came back whole
C12_Witness ==
    /\ call.op = "ParsedLine::from"
    /\ call.line = <<" ", "a", ":", "a", " ">>
    /\ ret = [tag |-> "KeylessLine", v |-> <<" ", "a", ":", "a", " ">>]

\* C13: for a line that is not blank and holds ": " the classifier answers
\* Pair(key, value) with key, ": " and value making up the line and no ": "
\* in the key, which makes the split the one at the leftmost ": "; neither
\* side is trimmed and the value may be empty or hold further ": ".
C13_SplitsAtFirstDelimiter ==
    call.op = "ParsedLine::from" =>
        /\ (ret.tag = "Pair") <=> IsPairLine(call.line)
        /\ ret.tag = "Pair" =>
             /\ ret.v.key \o <<":", " ">> \o ret.v.value = call.line
             /\ ~HasDelim(ret.v.key)

\* "a: : " was split into key "a" and value ": "
C13_Witness ==
    /\ call.op = "ParsedLine::from"
    /\ call.line = <<"a", ":", " ", ":", " ">>
    /\ ret = [tag |-> "Pair", v |-> KeyValuePair(<<"a">>, <<":", " ">>)]

----------------------------------------------------------------------------
(* Properties of the Record lookups *)

\* the positions of the fields with this key
FieldsWithKey(fields, key) == {i \in 1..Len(fields) : fields[i].key = key}

NumberWithKey(fields, key) == Cardinality(FieldsWithKey(fields, key))

\* C14: count_fields_with_key(k) is the number of fields whose key is k;
\* value_for_required_key(k) fails with MissingField when that number is 0,
\* fails with WantedOneFoundMore when it is 2 or more, and succeeds exactly
\* when it is 1, with the value of that field.
C14_CountAndRequiredKey ==
    LET n == NumberWithKey(record, call.key) IN
    /\ call.op = "count_fields_with_key" => ret = n
    /\ call.op = "value_for_required_key" =>
         /\ n = 0 => (~ret.ok /\ ret.v.err = "MissingField")
         /\ n >= 2 => (~ret.ok /\ ret.v.err = "WantedOneFoundMore")
         /\ ret.ok <=> n = 1
         /\ n = 1 => \E i \in FieldsWithKey(record, call.key) :
                        ret.v = record[i].value

\* the one field with key "b" among three was found by value_for_required_key
C14_Witness ==
    /\ call = [op |-> "value_for_required_key", key |-> <<"b">>]
    /\ record = <<KeyValuePair(<<"a">>, <<"1">>),
                  KeyValuePair(<<"b">>, <<"2">>),
                  KeyValuePair(<<"a">>, <<"2">>)>>
    /\ ret = Ok(<<"2">>)
    /\ count_fields_with_key(record, <<"a">>) = 2

\* C19: the lookups return their failures as values that carry the key and
\* the number n of fields with that key: value_for_key(k) returns no value
\* when n = 0, the value of the one field when n = 1 and
\* WantedAtMostOneFoundMore(k, n) when n >= 2; value_for_required_key(k)
\* returns WantedOneFoundMore(k, n) when n >= 2 and the value of the one
\* field when n = 1.
C19_LookupFailuresCarryKeyAndCount ==
    LET key == call.key
        n == NumberWithKey(record, key)
        the == CHOOSE i \in FieldsWithKey(record, key) : TRUE
    IN /\ call.op = "value_for_key" =>
            /\ n = 0 => ret = Ok(None)
            /\ n = 1 => ret = Ok(Some(record[the].value))
            /\ n >= 2 => ret = Err([err |-> "WantedAtMostOneFoundMore",
                                    key |-> key, count |-> n])
       /\ call.op = "value_for_required_key" =>
            /\ n = 1 => ret = Ok(record[the].value)
            /\ n >= 2 => ret = Err([err |-> "WantedOneFoundMore",
                                    key |-> key, count |-> n])

\* three fields with key "a": value_for_key reports the key and the count 3
C19_Witness ==
    /\ call = [op |-> "value_for_key", key |-> <<"a">>]
    /\ record = <<KeyValuePair(<<"a">>, <<"1">>),
                  KeyValuePair(<<"a">>, <<"2">>),
                  KeyValuePair(<<"a">>, <<"1">>)>>
    /\ ret = Err([err |-> "WantedAtMostOneFoundMore",
                  key |-> <<"a">>, count |-> 3])

----------------------------------------------------------------------------
(* Properties of the parsing core as a whole *)

OutputVariants == {"EmptyLine", "Pending", "KeylessLine", "Output"}

RecordOutputVariants ==
    {"EmptyLine", "ValuePending", "RecordPending", "KeylessLine", "Record"}

ParserStates == {"Ready", "AwaitingCloseText"}

\* C15: every call of process_line or end_input on the record parser, from
\* every reachable state, with every line and every answer the policy can
\* give, returns one of the output variants, the pair parser inside it
\* having returned one of its own, and leaves a parser in one of the two
\* states, from which the policy again has an answer for every line.
C15_ProcessLineIsTotal ==
    [][ /\ StepInnerOutput.tag \in OutputVariants
        /\ StepRecordOutput.tag \in RecordOutputVariants
        /\ rp'.inner.state \in ParserStates
        /\ \A line \in LinesFor(policy) :
             PolicyAnswers(policy, rp'.inner, line) # {}
      ]_vars

\* input ended inside a multi-line value that was never closed: end_input
\* answered ValuePending
C15_Witness ==
    /\ calls = 3
    /\ call.op = "end_input"
    /\ call.ans.kind = "ContinueMultiline"
    /\ ret = Out("ValuePending", <<>>)
    /\ rp.inner.state = "AwaitingCloseText"
    /\ rp.fields # <<>>

\* C16: after every process_line call the parser is in AwaitingCloseText
\* exactly when the call returned Pending and Ready exactly when it returned
\* EmptyLine, KeylessLine or Output; the parser leaves AwaitingCloseText
\* only on a FinishMultiline answer or by take_pending_pair, and stays in it
\* on every ContinueMultiline answer.
C16_OutputDeterminesState ==
    [][ /\ call'.op = "process_line" =>
             /\ (kv'.state = "AwaitingCloseText") <=> (ret'.value.tag = "Pending")
             /\ (kv'.state = "Ready") <=>
                  (ret'.value.tag \in {"EmptyLine", "KeylessLine", "Output"})
        /\ (kv.state = "AwaitingCloseText" /\ kv'.state = "Ready") =>
             \/ call'.op = "take_pending_pair"
             \/ call'.op = "process_line" /\ call'.ans.kind = "FinishMultiline"
        /\ (kv.state = "AwaitingCloseText" /\ call'.op = "process_line"
              /\ call'.ans.kind = "ContinueMultiline") =>
             kv'.state = "AwaitingCloseText"
      ]_vars

\* the parser is still in AwaitingCloseText after three ContinueMultiline
\* answers
C16_Witness ==
    /\ calls = 4
    /\ call.op = "process_line"
    /\ call.ans.kind = "ContinueMultiline"
    /\ ret.value.tag = "Pending"
    /\ kv.state = "AwaitingCloseText"
    /\ Len(kv.value_lines) = 4

\* C17: whenever the parser is Ready its pending key and its fragment buffer
\* are empty.
C17_ReadyHoldsNothing ==
    kv.state = "Ready" => (kv.pending_key = <<>> /\ kv.value_lines = <<>>)

\* the parser is Ready and holds nothing after a value of three fragments
\* under key "a" was finished
C17_Witness ==
    /\ call.op = "process_line"
    /\ call.ans.kind = "FinishMultiline"
    /\ ret.value.tag = "Output"
    /\ ret.value.v.key = <<"a">>
    /\ NewLinesIn(ret.value.v.value) = 2
    /\ kv.state = "Ready"
    /\ kv.pending_key = <<>>
    /\ kv.value_lines = <<>>

\* C18: a blank line read by the record parser while its inner parser is in
\* AwaitingCloseText and answered ContinueMultiline returns ValuePending,
\* leaves the fields as they are and the value open; the pair the value
\* completes on FinishMultiline is appended to those same fields.
C18_BlankInsideValueKeepsRecord ==
    [][ (rp.inner.state = "AwaitingCloseText" /\ call'.op = "process_line") =>
        /\ (IsBlank(call'.line) /\ call'.ans.kind = "ContinueMultiline") =>
             /\ StepRecordOutput = Out("ValuePending", <<>>)
             /\ rp'.fields = rp.fields
             /\ rp'.inner.state = "AwaitingCloseText"
             /\ rp'.inner.pending_key = rp.inner.pending_key
        /\ call'.ans.kind = "FinishMultiline" =>
             /\ StepRecordOutput = Out("RecordPending", <<>>)
             /\ rp'.fields =
                  Append(rp.fields,
                         KeyValuePair(rp.inner.pending_key,
                                      Joined(rp.inner.value_lines
                                             \o Present(call'.ans.v))))
      ]_vars

\* "a: 1" completed, "a: 2" opened a value, "" continued it with an empty
\* fragment, "x" finished it: both pairs are in the same record in progress
C18_Witness ==
    /\ calls = 4
    /\ call.op = "process_line"
    /\ call.ans.kind = "FinishMultiline"
    /\ ret.value = Out("RecordPending", <<>>)
    /\ rp.fields = <<KeyValuePair(<<"a">>, <<"1">>),
                     KeyValuePair(<<"a">>, <<"2", "\n", "\n", "x">>)>>

----------------------------------------------------------------------------
(* The RecordParser and the BlankLineRecordEmitter *)

\* the emitter output a RecordOutput corresponds to
Corresponding(output) ==
    IF output.tag \in {"ValuePending", "RecordPending"}
    THEN Out("Pending", <<>>)
    ELSE IF output.tag = "Record"
    THEN Out("Output", output.v)
    ELSE output

\* C21: a line fed to the RecordParser, and to a KVParser whose output goes
\* to BlankLineRecordEmitter::accumulate_output, both started together and
\* fed the same lines under the same policy: the two return the same line
\* number and corresponding outputs, and afterwards hold the same field
\* list, the two KVParsers being in the same state.
C21_RecordParserIsParserWithEmitter ==
    [][ call'.op = "process_line" =>
          /\ ret'.record_parser.line_number = ret'.emitter.line_number
          /\ Corresponding(ret'.record_parser.value) = ret'.emitter.value
          /\ rp'.fields = emitter'.fields
          /\ rp'.inner = kv'
      ]_vars

\* both have closed a record of two pairs on a blank line, one of the pairs
\* a value of two fragments
C21_Witness ==
    /\ calls = 4
    /\ call.op = "process_line"
    /\ IsBlank(call.line)
    /\ ret.record_parser.value.tag = "Record"
    /\ ret.emitter.value.tag = "Output"
    /\ Len(ret.emitter.value.v) = 2
    /\ \E i \in 1..2 : NewLinesIn(ret.emitter.value.v[i].value) = 1
    /\ rp.fields = <<>>
    /\ emitter.fields = <<>>

----------------------------------------------------------------------------
(* Values without fragments, and what the calls leave alone *)

\* C23: a fragment the policy does not return adds nothing to the buffer, at
\* the opening line and at every continuation; a value finished, or taken by
\* take_pending_pair, with no fragment at all is the pair of the pending key
\* and the empty text, and a value with exactly one fragment is that
\* fragment.
C23_EmptyAndSingleFragmentValues ==
    [][ LET ans == call'.ans
            frags == kv.value_lines \o Present(ans.v)
        IN
        /\ (call'.op = "process_line" /\ ans.v = None) =>
             /\ ans.kind = "StartOfMultiline" => kv'.value_lines = <<>>
             /\ ans.kind = "ContinueMultiline" => kv'.value_lines = kv.value_lines
        /\ (call'.op = "process_line" /\ ans.kind = "FinishMultiline") =>
             /\ frags = <<>> =>
                  ret'.value = Out("Output", KeyValuePair(kv.pending_key, <<>>))
             /\ Len(frags) = 1 =>
                  ret'.value = Out("Output", KeyValuePair(kv.pending_key, frags[1]))
        /\ (call'.op = "take_pending_pair" /\ kv.state = "AwaitingCloseText") =>
             /\ kv.value_lines = <<>> =>
                  ret' = Some(KeyValuePair(kv.pending_key, <<>>))
             /\ Len(kv.value_lines) = 1 =>
                  ret' = Some(KeyValuePair(kv.pending_key, kv.value_lines[1]))
      ]_vars

\* the third line, "x", finished a value under key "a" and the policy
\* returned no fragment of it: the output is the pair of "a" and the empty
\* text
C23_Witness ==
    /\ calls = 3
    /\ call.op = "process_line"
    /\ call.line = <<"x">>
    /\ call.ans = [kind |-> "FinishMultiline", v |-> None]
    /\ ret.value = Out("Output", KeyValuePair(<<"a">>, <<>>))
    /\ kv.state = "Ready"

\* C24: take_pending_pair and lines_processed leave the line counter as it
\* was, lines_processed leaves the whole parser so and returns the counter,
\* and take_pending_pair on a Ready parser changes nothing and returns None;
\* a line processed while Ready leaves the pending key and the buffer as
\* they were, empty, unless the policy answers StartOfMultiline, and then the
\* buffer holds the fragment of that answer alone.
C24_WhatTheCallsLeaveAlone ==
    [][ LET ans == call'.ans IN
        /\ call'.op \in {"take_pending_pair", "lines_processed"} =>
             kv'.line_num = kv.line_num
        /\ call'.op = "lines_processed" =>
             /\ kv' = kv
             /\ ret' = kv.line_num
        /\ (call'.op = "take_pending_pair" /\ kv.state = "Ready") =>
             /\ kv' = kv
             /\ ret' = None
        /\ (call'.op = "process_line" /\ kv.state = "Ready") =>
             /\ ans.kind # "StartOfMultiline" =>
                  /\ kv'.pending_key = kv.pending_key
                  /\ kv'.value_lines = kv.value_lines
                  /\ kv'.pending_key = <<>>
                  /\ kv'.value_lines = <<>>
             /\ ans.kind = "StartOfMultiline" =>
                  kv'.value_lines = Present(ans.v)
      ]_vars

\* after three lines a value under key "b" was taken: it is the fragment
\* "2" of its own opening line alone, and the counter is still three
C24_Witness ==
    /\ calls = 3
    /\ call.op = "take_pending_pair"
    /\ ret = Some(KeyValuePair(<<"b">>, <<"2">>))
    /\ kv = [KVParserNew EXCEPT !.line_num = 3]

====
